---------------------------- MODULE Spec2Model ----------------------------
(***************************************************************************)
(* A model of light-box (src/main.py): the colour algebra, the pixel       *)
(* topology (NeoPixelBlock / NeoPixelReplicate), the animation tree, the   *)
(* renderer, the timeline and the main loop.                               *)
(*                                                                         *)
(* Floating-point values are modelled as exact rationals <<num, den>> in   *)
(* lowest terms with den > 0.                                              *)
(***************************************************************************)
EXTENDS Integers, Sequences, FiniteSets, TLC

VARIABLES
    \* ---- ColorF objects --------------------------------------------------
    color,      \* the ColorF most recently produced
    ctorArgs,   \* <<r, g, b>> given to ColorF(r, g, b), or <<>>
    scaleK,     \* brightness given to the most recent scale_brightness call
    mixArgs,    \* the colours given to ColorF.mix
    colorOp,    \* "none" | "construct" | "scale" | "mix": the last operation
    prevOp,     \* the operation that produced the colour the last one acted on
    depth,      \* scale_brightness calls since the last construct / mix
    \* ---- the pixel sink and its views --------------------------------------
    np,         \* the NeoPixel buffer: cell index -> byte triple
    np0,        \* the buffer as it was before the last operation
    blocks,     \* the NeoPixelBlock views, each [start, end]; the nps of the
                \* NeoPixelReplicate, in order
    topoOp,     \* the last operation on a view, with its outcome
    written,    \* the indices set through the NeoPixelReplicate so far
    \* ---- an Animation under evaluation -----------------------------------
    anim,       \* the Animation object (a tree of records)
    evalArgs,   \* <<t, n>> of the evaluate call on it
    evalResult, \* the ColorF that call returned
    evalTrace,  \* what the call did inside: the child a ConcatenatedAnimation
                \* delegated to and its local_t; the cache indices a
                \* BakedAnimation read
    \* ---- a Renderer ------------------------------------------------------
    topology,   \* "block": Renderer(blocks[1], anim);
                \* "replicate": Renderer(NeoPixelReplicate(*blocks), anim)
    renderArgs, \* t of the render call
    renderLog,  \* what render did: the __setitem__ calls it made, in order
    npWrites,   \* np.write() calls so far (flushes of the sink)
    \* ---- the Timeline ----------------------------------------------------
    ticks,      \* time.ticks_ms() now: a counter that wraps at TicksPeriod
    t0,         \* Timeline.t0
    uptime,     \* milliseconds really elapsed since Timeline() was built
    elapsed,    \* what the last query of timeline.t returned (seconds)
    prevElapsed,\* what the query before it returned
    queries,    \* queries of timeline.t so far, counted up to 2
    \* ---- the main loop ---------------------------------------------------
    mode,       \* the global mode
    renderer,   \* the global renderer, or NoRenderer for None
    led_on,     \* the global led_on
    iter,       \* iterations of the loop completed
    loopLog     \* what the last iteration did

colorVars == <<color, ctorArgs, scaleK, mixArgs, colorOp, prevOp, depth>>
topoVars == <<np, np0, blocks, topoOp, written>>
animVars == <<anim, evalArgs, evalResult, evalTrace>>
renderVars == <<topology, renderArgs, renderLog, npWrites>>
timeVars == <<ticks, t0, uptime, elapsed, prevElapsed, queries>>
mainVars == <<mode, renderer, led_on, iter, loopLog>>

vars == <<colorVars, topoVars, animVars, renderVars, timeVars, mainVars>>

-----------------------------------------------------------------------------
(* Bounds of the model *)

MaxNum == 3        \* constructor inputs and brightness range over -1/2 .. MaxNum/2
MaxScale == 2      \* scale_brightness calls chained on one colour
MaxMix == 2        \* colours given to one ColorF.mix call
NPix == 3          \* cells of the NeoPixel buffer
MaxConcat == 3     \* children of a ConcatenatedAnimation
MaxSteps == 3      \* t_steps and n_steps of a BakedAnimation
MaxFlush == 1      \* np.write() calls followed
TicksBits == 3     \* width of the tick counter (30 on the device)
MaxIter == 3       \* iterations of the main loop followed

-----------------------------------------------------------------------------
(* Exact rational arithmetic standing for Python floats *)

Abs(i) == IF i < 0 THEN -i ELSE i

RECURSIVE GCD(_, _)
GCD(a, b) == IF b = 0 THEN a ELSE GCD(b, a % b)

\* The rational n/d (d # 0) in lowest terms with a positive denominator.
Rat(n, d) ==
    LET s == IF d < 0 THEN -1 ELSE 1
        g == GCD(Abs(n), Abs(d))
    IN  <<(s * n) \div g, (s * d) \div g>>

Zero == <<0, 1>>
One == <<1, 1>>

RAdd(a, b) == Rat(a[1] * b[2] + b[1] * a[2], a[2] * b[2])
RSub(a, b) == Rat(a[1] * b[2] - b[1] * a[2], a[2] * b[2])
RMul(a, b) == Rat(a[1] * b[1], a[2] * b[2])
RDiv(a, b) == Rat(a[1] * b[2], a[2] * b[1])
RNeg(a) == <<-a[1], a[2]>>
RLt(a, b) == a[1] * b[2] < b[1] * a[2]
RLe(a, b) == a[1] * b[2] <= b[1] * a[2]

\* Python's min(a, b): b only when b < a.
PyMin(a, b) == IF RLt(b, a) THEN b ELSE a

\* math.floor
Floor(a) == a[1] \div a[2]

\* Python's int(x) on a float: truncation toward zero.
PyInt(a) == IF a[1] >= 0 THEN a[1] \div a[2] ELSE -((-a[1]) \div a[2])

\* Python's a % m for a positive m: a - m * floor(a / m), in [0, m).
PyMod(a, m) == RSub(a, RMul(m, <<Floor(RDiv(a, m)), 1>>))

-----------------------------------------------------------------------------
(* ColorF, src/main.py 12-54.  A colour is <<r, g, b>>, each a rational. *)

ColorF(r, g, b) == <<PyMin(r, One), PyMin(g, One), PyMin(b, One)>>

\* A slip: the scaled channels are stored without going through __init__.
scale_brightness_unclamped(c, brightness) ==
    <<RMul(c[1], brightness), RMul(c[2], brightness), RMul(c[3], brightness)>>

scale_brightness(c, brightness) ==
    ColorF(RMul(c[1], brightness), RMul(c[2], brightness), RMul(c[3], brightness))

\* ColorF.out: the byte triple.
out(c) == <<PyInt(RMul(<<255, 1>>, c[1])),
            PyInt(RMul(<<255, 1>>, c[2])),
            PyInt(RMul(<<255, 1>>, c[3]))>>

is_black(c) == RLe(c[1], Zero) /\ RLe(c[2], Zero) /\ RLe(c[3], Zero)

\* The accumulation loop of ColorF.mix: r += c.r, g += c.g, b += c.b.
RECURSIVE mix_acc(_, _, _)
mix_acc(colors, i, acc) ==
    IF i > Len(colors) THEN acc
    ELSE mix_acc(colors, i + 1,
                 <<RAdd(acc[1], colors[i][1]),
                   RAdd(acc[2], colors[i][2]),
                   RAdd(acc[3], colors[i][3])>>)

\* A slip: the sums divided by n = float(len(colors)), which the code computes
\* and never uses.
mix_averaged(colors) ==
    LET s == mix_acc(colors, 1, <<Zero, Zero, Zero>>)
        n == <<IF Len(colors) = 0 THEN 1 ELSE Len(colors), 1>>
    IN  ColorF(RDiv(s[1], n), RDiv(s[2], n), RDiv(s[3], n))

mix(colors) ==
    LET s == mix_acc(colors, 1, <<Zero, Zero, Zero>>)
    IN  ColorF(s[1], s[2], s[3])

\* Inputs: channel values and brightness in halves, from -1/2 up.
ChanVals == {Rat(n, 2) : n \in -1 .. MaxNum}
Brightness == {Rat(n, 2) : n \in -1 .. MaxNum}

\* The channel values of the colours handed to mix: -1/2 and 3/5.
MixVals == {Rat(-1, 2), Rat(3, 5)}
MixPalette == {ColorF(r, g, b) : r \in MixVals, g \in MixVals, b \in MixVals}
MixInputs == UNION {[1 .. k -> MixPalette] : k \in 0 .. MaxMix}

NoColor == <<Zero, Zero, Zero>>

ColorIdle ==
    /\ color = NoColor
    /\ ctorArgs = <<>>
    /\ mixArgs = <<>>
    /\ scaleK = Zero
    /\ colorOp = "none"
    /\ prevOp = "none"
    /\ depth = 0

\* No colour exists yet; the arguments of the first call (a constructor call
\* or a mix call) are drawn here.
ColorInit ==
    /\ color = NoColor
    /\ \/ ctorArgs \in ChanVals \X ChanVals \X ChanVals /\ mixArgs = <<>>
       \/ ctorArgs = <<>> /\ mixArgs \in MixInputs
    /\ scaleK = Zero
    /\ colorOp = "none"
    /\ prevOp = "none"
    /\ depth = 0

\* ColorF(r, g, b)
Construct ==
    /\ colorOp = "none"
    /\ ctorArgs # <<>>
    /\ color' = ColorF(ctorArgs[1], ctorArgs[2], ctorArgs[3])
    /\ colorOp' = "construct"
    /\ prevOp' = colorOp
    /\ UNCHANGED <<ctorArgs, scaleK, mixArgs, depth>>
    /\ UNCHANGED <<topoVars, animVars, renderVars, timeVars, mainVars>>

\* color.scale_brightness(k)
ScaleBrightness ==
    \E k \in Brightness :
        /\ colorOp # "none"
        /\ depth < MaxScale
        /\ color' = scale_brightness(color, k)
        /\ scaleK' = k
        /\ colorOp' = "scale"
        /\ prevOp' = colorOp
        /\ depth' = depth + 1
        /\ UNCHANGED <<ctorArgs, mixArgs>>
        /\ UNCHANGED <<topoVars, animVars, renderVars, timeVars, mainVars>>

\* ColorF.mix(*mixArgs)
Mix ==
    /\ colorOp = "none"
    /\ ctorArgs = <<>>
    /\ color' = mix(mixArgs)
    /\ colorOp' = "mix"
    /\ prevOp' = colorOp
    /\ UNCHANGED <<ctorArgs, scaleK, mixArgs, depth>>
    /\ UNCHANGED <<topoVars, animVars, renderVars, timeVars, mainVars>>

ColorNext == Construct \/ ScaleBrightness \/ Mix

-----
(* Claims about ColorF *)

\* The sum of channel ch over the colours of cs, taken from the last one back.
RECURSIVE ChanSum(_, _, _)
ChanSum(cs, ch, k) == IF k = 0 THEN Zero ELSE RAdd(ChanSum(cs, ch, k - 1), cs[k][ch])

\* C8: ColorF.mix returns, per channel, the sum of the inputs' channels
\* upper-clamped to 1.0 (not the average), and every colour produced by
\* construction, scale or mix has each channel <= 1.0.
C8_MixSumsAndClamps ==
    /\ colorOp = "mix" =>
         \A ch \in 1 .. 3 :
            LET s == ChanSum(mixArgs, ch, Len(mixArgs))
            IN  color[ch] = (IF RLe(s, One) THEN s ELSE One)
    /\ \A ch \in 1 .. 3 : RLe(color[ch], One)

\* A mix of two colours whose red sum exceeds 1.0 (clamped) and whose green
\* sum is negative (kept: no lower bound).
C8_Witness ==
    /\ colorOp = "mix"
    /\ Len(mixArgs) = 2
    /\ RLt(One, ChanSum(mixArgs, 1, 2))
    /\ color[1] = One
    /\ RLt(color[2], Zero)

\* C9 as stated: Color(r,g,b).scale(k) has channels min(r*k, 1.0),
\* min(g*k, 1.0), min(b*k, 1.0) for every k >= 0.
C9_ScaleOfRawInputs ==
    (colorOp = "scale" /\ prevOp = "construct" /\ RLe(Zero, scaleK)) =>
        \A ch \in 1 .. 3 : color[ch] = PyMin(RMul(ctorArgs[ch], scaleK), One)

\* C9 amended: the constructor clamps first, so the channels are
\* min(min(r, 1.0)*k, 1.0), and likewise for g and b.
C9_ScaleOfClampedInputs ==
    (colorOp = "scale" /\ prevOp = "construct" /\ RLe(Zero, scaleK)) =>
        \A ch \in 1 .. 3 :
            color[ch] = PyMin(RMul(PyMin(ctorArgs[ch], One), scaleK), One)

\* A colour built from a red input above 1.0 and scaled by a factor below 1:
\* the result is 1.0 * k.
C9_Witness ==
    /\ colorOp = "scale"
    /\ prevOp = "construct"
    /\ RLt(One, ctorArgs[1])
    /\ RLt(Zero, scaleK) /\ RLt(scaleK, One)
    /\ color[1] = scaleK

-----------------------------------------------------------------------------
(* NeoPixelBlock and NeoPixelReplicate, src/main.py 72-122.                *)
(* An operation yields [raised, ret, buf]: whether IndexError was raised,  *)
(* the value returned, and the sink's buffer afterwards.                   *)

Cells == 0 .. NPix - 1
Black == <<0, 0, 0>>
Red == <<255, 0, 0>>
PixVals == {Black, Red}
Indices == -1 .. NPix
None == "None"

\* NeoPixelBlock(np, start, end) over the sink, lines 73-76
NeoPixelBlock(start, end) == [start |-> start, end |-> end]

\* NeoPixelBlock.n, lines 78-80
Block_n(blk) == blk.end - blk.start

\* NeoPixelBlock.__getitem__, lines 82-85
Block_getitem(blk, buf, index) ==
    IF index < 0 \/ index >= Block_n(blk)
    THEN [raised |-> TRUE, ret |-> None, buf |-> buf]
    ELSE [raised |-> FALSE, ret |-> buf[blk.start + index], buf |-> buf]

\* A slip: the index is used as a sink index, without the block's start.
Block_setitem_no_offset(blk, buf, index, value) ==
    IF index < 0 \/ index >= Block_n(blk)
    THEN [raised |-> TRUE, ret |-> None, buf |-> buf]
    ELSE [raised |-> FALSE, ret |-> None, buf |-> [buf EXCEPT ![index] = value]]

\* NeoPixelBlock.__setitem__, lines 87-90
Block_setitem(blk, buf, index, value) ==
    IF index < 0 \/ index >= Block_n(blk)
    THEN [raised |-> TRUE, ret |-> None, buf |-> buf]
    ELSE [raised |-> FALSE, ret |-> None,
          buf |-> [buf EXCEPT ![blk.start + index] = value]]

\* NeoPixelBlock.fill, lines 92-94: for i in range(start, end): np[i] = color
RECURSIVE Block_fill_from(_, _, _, _)
Block_fill_from(blk, buf, i, c) ==
    IF i >= blk.end THEN buf
    ELSE Block_fill_from(blk, [buf EXCEPT ![i] = c], i + 1, c)

Block_fill(blk, buf, c) ==
    [raised |-> FALSE, ret |-> None, buf |-> Block_fill_from(blk, buf, blk.start, c)]

\* NeoPixelReplicate.n, line 103: min(np.n for np in nps)
RECURSIVE Replicate_min(_, _, _)
Replicate_min(nps, k, m) ==
    IF k > Len(nps) THEN m
    ELSE Replicate_min(nps, k + 1, IF Block_n(nps[k]) < m THEN Block_n(nps[k]) ELSE m)

Replicate_n(nps) == Replicate_min(nps, 2, Block_n(nps[1]))

\* NeoPixelReplicate.__getitem__, lines 105-108
Replicate_getitem(nps, buf, index) ==
    IF index < 0 \/ index >= Replicate_n(nps)
    THEN [raised |-> TRUE, ret |-> None, buf |-> buf]
    ELSE Block_getitem(nps[1], buf, index)

\* for np in self.nps: np[index] = value  (line 113-114); an IndexError
\* from a child ends the loop with the earlier children already written.
RECURSIVE Replicate_set_from(_, _, _, _, _)
Replicate_set_from(nps, buf, k, index, value) ==
    IF k > Len(nps) THEN [raised |-> FALSE, ret |-> None, buf |-> buf]
    ELSE LET r == Block_setitem(nps[k], buf, index, value)
         IN  IF r.raised THEN r
             ELSE Replicate_set_from(nps, r.buf, k + 1, index, value)

\* A slip: the bounds check left to the children.
Replicate_setitem_unchecked(nps, buf, index, value) ==
    Replicate_set_from(nps, buf, 1, index, value)

\* A slip: only the first child is written, as __getitem__ only reads it.
Replicate_setitem_first_only(nps, buf, index, value) ==
    IF index < 0 \/ index >= Replicate_n(nps)
    THEN [raised |-> TRUE, ret |-> None, buf |-> buf]
    ELSE Block_setitem(nps[1], buf, index, value)

\* NeoPixelReplicate.__setitem__, lines 110-114
Replicate_setitem(nps, buf, index, value) ==
    IF index < 0 \/ index >= Replicate_n(nps)
    THEN [raised |-> TRUE, ret |-> None, buf |-> buf]
    ELSE Replicate_set_from(nps, buf, 1, index, value)

\* NeoPixelReplicate.fill, lines 116-118
RECURSIVE Replicate_fill_from(_, _, _, _)
Replicate_fill_from(nps, buf, k, c) ==
    IF k > Len(nps) THEN buf
    ELSE Replicate_fill_from(nps, Block_fill(nps[k], buf, c).buf, k + 1, c)

Replicate_fill(nps, buf, c) ==
    [raised |-> FALSE, ret |-> None, buf |-> Replicate_fill_from(nps, buf, 1, c)]

\* The views a program may build over the sink: 0 <= start < end <= NPix.
BlockViews ==
    {NeoPixelBlock(p[1], p[2]) :
        p \in {q \in (0 .. NPix) \X (0 .. NPix) : q[1] < q[2]}}

NoOp == [obj |-> "none", op |-> "none", index |-> 0, value |-> None,
         raised |-> FALSE, ret |-> None]

TopoIdle ==
    /\ np = [c \in Cells |-> Black]
    /\ np0 = np
    /\ blocks = <<NeoPixelBlock(0, NPix \div 2), NeoPixelBlock(NPix \div 2, NPix)>>
    /\ topoOp = NoOp
    /\ written = {}


\* A sink with any contents and two views of it, mirrored by a Replicate.
TopoInit ==
    /\ np \in [Cells -> PixVals]
    /\ np0 = np
    /\ blocks \in BlockViews \X BlockViews
    /\ topoOp = NoOp
    /\ written = {}

Done(obj, op, index, value, r) ==
    /\ np' = r.buf
    /\ np0' = np
    /\ topoOp' = [obj |-> obj, op |-> op, index |-> index, value |-> value,
                  raised |-> r.raised, ret |-> r.ret]
    /\ UNCHANGED blocks
    /\ UNCHANGED <<colorVars, animVars, renderVars, timeVars, mainVars>>

\* block[i], on the view blocks[1]
BlockGet ==
    \E i \in Indices :
        /\ Done("block", "get", i, None, Block_getitem(blocks[1], np, i))
        /\ UNCHANGED written

\* block[i] = v: a write that bypasses the Replicate
BlockSet ==
    \E i \in Indices, v \in PixVals :
        /\ Done("block", "set", i, v, Block_setitem(blocks[1], np, i, v))
        /\ written' = {}

\* block.fill(c)
BlockFill ==
    \E c \in PixVals :
        /\ Done("block", "fill", 0, c, Block_fill(blocks[1], np, c))
        /\ written' = {}

\* replicate[i]
ReplicateGet ==
    \E i \in Indices :
        /\ Done("replicate", "get", i, None, Replicate_getitem(blocks, np, i))
        /\ UNCHANGED written

\* replicate[i] = v
ReplicateSet ==
    \E i \in Indices, v \in PixVals :
        LET r == Replicate_setitem(blocks, np, i, v)
        IN  /\ Done("replicate", "set", i, v, r)
            /\ written' = IF r.raised THEN written ELSE written \cup {i}

\* replicate.fill(c)
ReplicateFill ==
    \E c \in PixVals :
        /\ Done("replicate", "fill", 0, c, Replicate_fill(blocks, np, c))
        /\ written' = {}

TopoNext ==
    \/ BlockGet \/ BlockSet \/ BlockFill
    \/ ReplicateGet \/ ReplicateSet \/ ReplicateFill


-----------------------------------------------------------------------------
(* Claims about the views *)

\* The cells a view covers, and the least count among the views of nps.
CellsOf(blk) == {c \in Cells : blk.start <= c /\ c < blk.end}
Count(blk) == Cardinality(CellsOf(blk))
LeastCount(nps) ==
    CHOOSE m \in {Count(nps[k]) : k \in 1 .. Len(nps)} :
        \A k \in 1 .. Len(nps) : m <= Count(nps[k])
OpCount == IF topoOp.obj = "replicate" THEN LeastCount(blocks) ELSE Count(blocks[1])
InRange == 0 <= topoOp.index /\ topoOp.index < OpCount

\* C1: on a Block and on a Replicate, get(i) and set(i, v) with i < 0 or
\* i >= count raise IndexError, and a failing set leaves every cell of the
\* sink unchanged (no child of a Replicate is written before the error).
C1_OutOfRangeRaises ==
    (topoOp.op \in {"get", "set"} /\ ~InRange) => (topoOp.raised /\ np = np0)

\* A set through the Replicate that fails although the index is inside the
\* first child.
C1_Witness ==
    /\ topoOp.obj = "replicate" /\ topoOp.op = "set"
    /\ topoOp.raised
    /\ 0 <= topoOp.index /\ topoOp.index < Count(blocks[1])
    /\ np0[blocks[1].start + topoOp.index] # topoOp.value

\* Every child of the Replicate holds x at index i.
AllHold(i, x) == \A k \in 1 .. Len(blocks) : np[blocks[k].start + i] = x
Disjoint == \A j, k \in 1 .. Len(blocks) :
                j # k => CellsOf(blocks[j]) \cap CellsOf(blocks[k]) = {}

C4_BlockFrame ==
    topoOp.obj = "block" =>
        LET blk == blocks[1]
            i == topoOp.index
        IN  /\ Block_n(blk) = Count(blk)
            /\ (topoOp.op = "set" /\ InRange) =>
                  /\ ~topoOp.raised
                  /\ \A c \in Cells :
                        np[c] = IF c = blk.start + i THEN topoOp.value ELSE np0[c]
            /\ (topoOp.op = "get" /\ InRange) =>
                  /\ ~topoOp.raised
                  /\ topoOp.ret = np0[blk.start + i]
                  /\ np = np0
            /\ topoOp.op = "fill" =>
                  \A c \in Cells :
                        np[c] = IF c \in CellsOf(blk) THEN topoOp.value ELSE np0[c]

\* A set through a Block that does not start at cell 0, which changed its
\* cell and no other.
C4_Witness ==
    /\ topoOp.obj = "block" /\ topoOp.op = "set" /\ ~topoOp.raised
    /\ blocks[1].start > 0
    /\ topoOp.index > 0
    /\ np # np0

-----------------------------------------------------------------------------
(* Animations, src/main.py 165-297.  An Animation is a record tagged by    *)
(* its class; evaluate(t, n) is Evaluate(a, t, n).                         *)

ConstantColor(c) == c

AnimationFlash(color_source, a, b, c, d) ==
    [kind |-> "flash", color_source |-> color_source, a |-> a, b |-> b, c |-> c, d |-> d]
AnimationSpinner(color_source) == [kind |-> "spinner", color_source |-> color_source]
TimeShiftedAnimation(base, time_shift) ==
    [kind |-> "timeshift", base_animation |-> base, time_shift |-> time_shift]
MixedAnimation(animations) == [kind |-> "mixed", animations |-> animations]
SpeedAdjustedAnimation(base, speed) ==
    [kind |-> "speed", base_animation |-> base, speed |-> speed]
ConcatenatedAnimation(animations) == [kind |-> "concat", animations |-> animations]
ReverseAnimation(base) == [kind |-> "reverse", base_animation |-> base]
RemapAnimation(base, from, to) ==
    [kind |-> "remap", base_animation |-> base, t0 |-> from, t1 |-> to]

\* The loop of ConcatenatedAnimation.evaluate, lines 248-254, over k
\* children of duration 1.0 each: the child that handles t (0 for the black
\* fallback) and its local_t.
RECURSIVE Concat_walk(_, _, _, _)
Concat_walk(k, t, idx, cumulative) ==
    IF idx > k THEN [child |-> 0, local_t |-> Zero]
    ELSE IF RLe(t, RAdd(cumulative, One))
         THEN [child |-> idx, local_t |-> RSub(t, cumulative)]
         ELSE Concat_walk(k, t, idx + 1, RAdd(cumulative, One))

\* A slip: the segment test written cumulative + dur > t.
RECURSIVE Concat_walk_strict(_, _, _, _)
Concat_walk_strict(k, t, idx, cumulative) ==
    IF idx > k THEN [child |-> 0, local_t |-> Zero]
    ELSE IF RLt(t, RAdd(cumulative, One))
         THEN [child |-> idx, local_t |-> RSub(t, cumulative)]
         ELSE Concat_walk_strict(k, t, idx + 1, RAdd(cumulative, One))

Concat_dispatch_strict(k, t) == Concat_walk_strict(k, PyMod(t, <<k, 1>>), 1, Zero)

\* t = t % self.total_duration, then the loop (lines 247-254)
Concat_dispatch(k, t) == Concat_walk(k, PyMod(t, <<k, 1>>), 1, Zero)

\* A slip: the index taken from t without t % 1.0.
Baked_index_unwrapped(v, steps) == PyInt(RMul(v, <<steps, 1>>)) % steps

\* lines 293-296: int((v % 1.0) * float(steps)) % steps
Baked_index(v, steps) == PyInt(RMul(PyMod(v, One), <<steps, 1>>)) % steps

RECURSIVE Evaluate(_, _, _)
RECURSIVE EvaluateAll(_, _, _, _)

\* [anim.evaluate(t, n) for anim in animations], lines 228
EvaluateAll(animations, i, t, n) ==
    IF i > Len(animations) THEN <<>>
    ELSE <<Evaluate(animations[i], t, n)>> \o EvaluateAll(animations, i + 1, t, n)

Evaluate(a, t, n) ==
    CASE a.kind = "flash" ->
            LET x == t
                y == PyMin(RSub(One, PyMod(<<PyInt(RMul(a.a, x)), 1>>, a.b)),
                           RSub(One, PyMod(<<PyInt(RMul(a.c, x)), 1>>, a.d)))
            IN  scale_brightness(a.color_source, y)
      [] a.kind = "spinner" ->
            LET x == RAdd(t, n)
                m == PyMod(x, One)
                y == RMul(m, m)
            IN  scale_brightness(a.color_source, y)
      [] a.kind = "timeshift" -> Evaluate(a.base_animation, RAdd(t, a.time_shift), n)
      [] a.kind = "mixed" -> mix(EvaluateAll(a.animations, 1, t, n))
      [] a.kind = "speed" -> Evaluate(a.base_animation, RMul(t, a.speed), n)
      [] a.kind = "concat" ->
            LET d == Concat_dispatch(Len(a.animations), t)
            IN  IF d.child = 0 THEN ColorF(Zero, Zero, Zero)
                ELSE Evaluate(a.animations[d.child], d.local_t, n)
      [] a.kind = "reverse" -> Evaluate(a.base_animation, RNeg(t), n)
      [] a.kind = "remap" ->
            Evaluate(a.base_animation, RAdd(a.t0, RMul(RSub(a.t1, a.t0), t)), n)
      [] a.kind = "baked" ->
            a.cache[Baked_index(t, a.t_steps)][Baked_index(n, a.n_steps)]

\* BakedAnimation.__init__, lines 282-290: the cache is filled here.
BakedAnimation(base, t_steps, n_steps) ==
    [kind |-> "baked", base_animation |-> base,
     t_steps |-> t_steps, n_steps |-> n_steps,
     cache |-> [ti \in 0 .. t_steps - 1 |->
                  [ni \in 0 .. n_steps - 1 |->
                      Evaluate(base, Rat(ti, t_steps), Rat(ni, n_steps))]]]

\* The colours the main loop uses, lines 416-428.
RedF == ColorF(One, Zero, Zero)
BlueF == ColorF(Zero, Zero, One)
YellowF == ColorF(One, Rat(2, 5), Zero)

\* AnimationFlash's default arguments a=12.0, b=2.0, c=2.0, d=2.0 (line 166)
Flash(c, d) == AnimationFlash(ConstantColor(c), <<12, 1>>, <<2, 1>>, <<2, 1>>, d)

\* The animations of the renderer factories, lines 339-367 (the rainbow's
\* cosine has no exact value and is left out).
SpinnerAnim(c) == SpeedAdjustedAnimation(AnimationSpinner(ConstantColor(c)), <<3, 1>>)
FlashAnim(c) == SpeedAdjustedAnimation(Flash(c, <<2, 1>>), Rat(3, 2))
TwoColorAnim(c1, c2) ==
    SpeedAdjustedAnimation(
        ConcatenatedAnimation(<<Flash(c1, One), Flash(c2, One)>>), Rat(3, 2))

\* Children for a ConcatenatedAnimation: spinners of different colours.
ConcatChildren ==
    [j \in 1 .. MaxConcat + 1 |->
        AnimationSpinner(ConstantColor(ColorF(One, Rat(j, MaxConcat + 2), Zero)))]
ConcatAnims ==
    {ConcatenatedAnimation([j \in 1 .. k |-> ConcatChildren[j]]) : k \in 1 .. MaxConcat}

\* Bases for a BakedAnimation.
BakeBases ==
    {AnimationSpinner(ConstantColor(YellowF)),
     TwoColorAnim(RedF, BlueF),
     RemapAnimation(ReverseAnimation(
        TimeShiftedAnimation(AnimationSpinner(ConstantColor(BlueF)), Rat(1, 4))),
        Rat(1, 4), Rat(1, 2))}
BakedAnims ==
    {BakedAnimation(b, ts, ns) : b \in BakeBases, ts \in 1 .. MaxSteps, ns \in 1 .. MaxSteps}

\* Arguments of evaluate, in quarters: t from -5/4 up past the last segment
\* end, n from -1/4 to 3/2.
Times == {Rat(j, 4) : j \in -5 .. 4 * MaxConcat + 1}
Positions == {Rat(j, 4) : j \in -1 .. 6}

NoTrace == [done |-> FALSE, child |-> 0, local_t |-> Zero, t_index |-> 0, n_index |-> 0]
Returned == [NoTrace EXCEPT !.done = TRUE]

AnimIdle ==
    /\ anim = MixedAnimation(<<>>)
    /\ evalArgs = <<Zero, Zero>>
    /\ evalResult = NoColor
    /\ evalTrace = NoTrace

\* An animation is built and the arguments of the call are drawn.
AnimInit ==
    /\ anim \in ConcatAnims \cup BakedAnims
    /\ evalArgs \in Times \X Positions
    /\ evalResult = NoColor
    /\ evalTrace = NoTrace

\* anim.evaluate(t, n)
AnimEvaluate ==
    LET t == evalArgs[1]
        n == evalArgs[2]
    IN  /\ ~evalTrace.done
        /\ evalResult' = Evaluate(anim, t, n)
        /\ evalTrace' =
             CASE anim.kind = "concat" ->
                    LET d == Concat_dispatch(Len(anim.animations), t)
                    IN  [Returned EXCEPT !.child = d.child, !.local_t = d.local_t]
               [] anim.kind = "baked" ->
                    [Returned EXCEPT !.t_index = Baked_index(t, anim.t_steps),
                                     !.n_index = Baked_index(n, anim.n_steps)]
               [] OTHER -> Returned
        /\ UNCHANGED <<anim, evalArgs>>
        /\ UNCHANGED <<colorVars, topoVars, renderVars, timeVars, mainVars>>

AnimNext == AnimEvaluate

-----------------------------------------------------------------------------
(* Claims about the animations *)

InUnit(v) == RLe(Zero, v) /\ RLt(v, One)

\* C5: a Concatenate of k unit-duration children sends evaluate(t, n), with
\* t' = t mod k, to the first child whose cumulative end is >= t', with
\* local_t = t' minus that child's cumulative start: an exact boundary
\* t' = j (1 <= j < k) goes to the earlier child j-1 with local_t = 1.0, a
\* t' strictly between j and j+1 goes to child j with local_t = t' - j, and
\* the black fallback is never returned.  (evalTrace.child counts from 1.)
C5_ConcatDispatch ==
    (anim.kind = "concat" /\ evalTrace.done) =>
        LET k == Len(anim.animations)
            tp == PyMod(evalArgs[1], <<k, 1>>)
            j == Floor(tp)
            ch == evalTrace.child
        IN  /\ ch \in 1 .. k
            /\ RLe(tp, <<ch, 1>>)
            /\ \A c \in 1 .. ch - 1 : RLt(<<c, 1>>, tp)
            /\ evalTrace.local_t = RSub(tp, <<ch - 1, 1>>)
            /\ (tp = <<j, 1>> /\ 1 <= j /\ j < k) =>
                  (ch - 1 = j - 1 /\ evalTrace.local_t = One)
            /\ (RLt(<<j, 1>>, tp) /\ RLt(tp, <<j + 1, 1>>)) =>
                  (ch - 1 = j /\ evalTrace.local_t = RSub(tp, <<j, 1>>))
            /\ evalResult = Evaluate(anim.animations[ch], evalTrace.local_t, evalArgs[2])

\* A call at a time past the total duration that lands exactly on the end of
\* the first of several segments.
C5_Witness ==
    /\ anim.kind = "concat" /\ evalTrace.done
    /\ Len(anim.animations) >= 2
    /\ RLt(<<Len(anim.animations), 1>>, evalArgs[1])
    /\ PyMod(evalArgs[1], <<Len(anim.animations), 1>>) = One
    /\ evalTrace.child = 1
    /\ evalTrace.local_t = One
    /\ ~is_black(evalResult)

\* floor(v * steps) / steps
Quantized(v, steps) == Rat(Floor(RMul(v, <<steps, 1>>)), steps)

\* C7: for Bake(base, t_steps, n_steps) and t, n in [0,1), evaluate(t, n)
\* equals base.evaluate(floor(t*t_steps)/t_steps, floor(n*n_steps)/n_steps);
\* for any other t or n the value is the one for t mod 1.0 and n mod 1.0; the
\* cache indices are within [0, t_steps) x [0, n_steps); and the cache is what
\* construction put there.
C7_BakeQuantizes ==
    (anim.kind = "baked" /\ evalTrace.done) =>
        LET base == anim.base_animation
            ts == anim.t_steps
            ns == anim.n_steps
            t == evalArgs[1]
            n == evalArgs[2]
        IN  /\ (InUnit(t) /\ InUnit(n)) =>
                  evalResult = Evaluate(base, Quantized(t, ts), Quantized(n, ns))
            /\ evalResult = Evaluate(base, Quantized(PyMod(t, One), ts),
                                           Quantized(PyMod(n, One), ns))
            /\ evalTrace.t_index \in 0 .. ts - 1
            /\ evalTrace.n_index \in 0 .. ns - 1
            /\ \A ti \in 0 .. ts - 1, ni \in 0 .. ns - 1 :
                  anim.cache[ti][ni] = Evaluate(base, Rat(ti, ts), Rat(ni, ns))

\* A call with a negative t and an n above 1 that read a cell other than
\* the first of a cache with several cells each way.
C7_Witness ==
    /\ anim.kind = "baked" /\ evalTrace.done
    /\ RLt(evalArgs[1], Zero)
    /\ RLt(One, evalArgs[2])
    /\ evalTrace.t_index > 0
    /\ evalTrace.n_index > 0
    /\ evalResult # anim.cache[0][0]

-----------------------------------------------------------------------------
(* Renderer, src/main.py 143-153 *)

\* self.np.n of the renderer's topology
Topo_n(topo, nps) == IF topo = "block" THEN Block_n(nps[1]) ELSE Replicate_n(nps)

\* self.np[idx] = color
Topo_setitem(topo, nps, buf, index, value) ==
    IF topo = "block" THEN Block_setitem(nps[1], buf, index, value)
    ELSE Replicate_setitem(nps, buf, index, value)

\* A slip: t used as given, without t = t % 1.0.
Render_colors_unwrapped(a, t, c) ==
    [idx \in 1 .. c |-> out(Evaluate(a, t, RDiv(<<idx - 1, 1>>, <<c, 1>>)))]

\* lines 149-151: the colours of the frame, for n in range(self.np.n)
Render_colors(a, t, c) ==
    [idx \in 1 .. c |-> out(Evaluate(a, PyMod(t, One), RDiv(<<idx - 1, 1>>, <<c, 1>>)))]

\* lines 152-153: for idx, color in enumerate(colors): self.np[idx] = color.
\* An IndexError ends the loop.
RECURSIVE Render_store(_, _, _, _, _, _)
Render_store(topo, nps, buf, colors, k, log) ==
    IF k > Len(colors) THEN [raised |-> FALSE, buf |-> buf, log |-> log]
    ELSE LET r == Topo_setitem(topo, nps, buf, k - 1, colors[k])
         IN  IF r.raised THEN [raised |-> TRUE, buf |-> r.buf, log |-> log]
             ELSE Render_store(topo, nps, r.buf, colors, k + 1,
                               Append(log, [index |-> k - 1, value |-> colors[k]]))

\* Renderer.render(t)
Renderer_render(topo, nps, buf, a, t) ==
    Render_store(topo, nps, buf, Render_colors(a, t, Topo_n(topo, nps)), 1, <<>>)

\* The animations rendered: constant black (a mix of nothing), and the
\* spinner and the flash of the renderer factories.
ConstantBlack == MixedAnimation(<<>>)
RenderAnims == {ConstantBlack, SpinnerAnim(RedF), FlashAnim(YellowF)}

\* Times of a render call, in quarters from -1/2 to 5/4.
RenderTimes == {Rat(j, 4) : j \in -2 .. 5}

\* before / after: the caller's np.write() calls before and after the render
NoRender == [done |-> FALSE, raised |-> FALSE, writes |-> <<>>,
             before |-> 0, after |-> 0]

RenderIdle ==
    /\ topology = "block"
    /\ renderArgs = Zero
    /\ renderLog = NoRender
    /\ npWrites = 0

\* A renderer is built over a sink showing an earlier frame, and the time
\* of the render call is drawn.
RenderInit ==
    /\ topology \in {"block", "replicate"}
    /\ blocks \in BlockViews \X BlockViews
    /\ anim \in RenderAnims
    /\ np \in {[c \in Cells |-> v] : v \in PixVals}
    /\ np0 = np
    /\ renderArgs \in RenderTimes
    /\ renderLog = NoRender
    /\ npWrites = 0
    /\ topoOp = NoOp
    /\ written = {}
    /\ evalArgs = <<Zero, Zero>>
    /\ evalResult = NoColor
    /\ evalTrace = NoTrace

\* renderer.render(t)
Render ==
    LET r == Renderer_render(topology, blocks, np, anim, renderArgs)
    IN  /\ ~renderLog.done
        /\ np' = r.buf
        /\ np0' = np
        /\ renderLog' = [done |-> TRUE, raised |-> r.raised, writes |-> r.log,
                         before |-> npWrites, after |-> 0]
        /\ UNCHANGED <<blocks, topoOp, written>>
        /\ UNCHANGED <<topology, renderArgs, npWrites>>
        /\ UNCHANGED <<colorVars, animVars, timeVars, mainVars>>

\* np.write(), the caller's flush (line 434)
Flush ==
    /\ npWrites < MaxFlush
    /\ npWrites' = npWrites + 1
    /\ renderLog' = IF renderLog.done
                    THEN [renderLog EXCEPT !.after = renderLog.after + 1]
                    ELSE renderLog
    /\ UNCHANGED <<topology, renderArgs>>
    /\ UNCHANGED <<colorVars, topoVars, animVars, timeVars, mainVars>>

RenderNext == Render \/ Flush

-----------------------------------------------------------------------------
(* Claims about the renderer *)

\* The cells render may write: index i < count of each view of the topology.
Views == IF topology = "block" THEN <<blocks[1]>> ELSE blocks
RenderCount == LeastCount(Views)
RenderCells == {Views[k].start + i : k \in 1 .. Len(Views), i \in 0 .. RenderCount - 1}
ViewsDisjoint == \A j, k \in 1 .. Len(Views) :
                    j # k => CellsOf(Views[j]) \cap CellsOf(Views[k]) = {}
Frame(i) == out(Evaluate(anim, PyMod(renderArgs, One), Rat(i, RenderCount)))

\* C3: render(t) over a topology of count c > 0 writes, for every index i in
\* [0, c), the byte triple of animation.evaluate(t mod 1.0, i / c) at index
\* i, each index exactly once, writes no cell outside the topology and never
\* flushes it; with a constant-black animation every pixel of the topology is
\* (0,0,0) afterwards.
C3_RenderWritesFrame ==
    (renderLog.done /\ RenderCount > 0) =>
        /\ ~renderLog.raised
        /\ \A i \in 0 .. RenderCount - 1 :
              /\ Cardinality({k \in 1 .. Len(renderLog.writes) :
                                renderLog.writes[k].index = i}) = 1
              /\ \A k \in 1 .. Len(renderLog.writes) :
                    renderLog.writes[k].index = i => renderLog.writes[k].value = Frame(i)
              /\ ViewsDisjoint =>
                    \A v \in 1 .. Len(Views) : np[Views[v].start + i] = Frame(i)
        /\ \A k \in 1 .. Len(renderLog.writes) :
              renderLog.writes[k].index \in 0 .. RenderCount - 1
        /\ \A c \in Cells \ RenderCells : np[c] = np0[c]
        /\ npWrites = renderLog.before + renderLog.after
        /\ anim = ConstantBlack => \A c \in RenderCells : np[c] = Black

\* A render, at a time outside [0, 1), of a frame whose pixels differ, onto
\* a sink that keeps a cell outside the topology.
C3_Witness ==
    /\ renderLog.done
    /\ RenderCount >= 2
    /\ ~InUnit(renderArgs)
    /\ Cells \ RenderCells # {}
    /\ Frame(0) # Frame(1)
    /\ np # np0

-----------------------------------------------------------------------------
(* Timeline, src/main.py 129-135, over MicroPython's wrapping tick counter *)

RECURSIVE Pow2(_)
Pow2(k) == IF k = 0 THEN 1 ELSE 2 * Pow2(k - 1)

\* time.ticks_ms() counts modulo TicksPeriod.
TicksPeriod == Pow2(TicksBits)

\* time.ticks_diff(a, b): the difference taken modulo TicksPeriod, as a
\* signed value in [-TicksPeriod/2, TicksPeriod/2).
ticks_diff(a, b) ==
    ((a - b + TicksPeriod \div 2) % TicksPeriod) - TicksPeriod \div 2

\* Timeline.t, line 135
Timeline_t(now, start) ==
    LET d == ticks_diff(now, start)
    IN  Rat(IF d > 0 THEN d ELSE 0, 1000)

TimeIdle ==
    /\ ticks = 0
    /\ t0 = 0
    /\ uptime = 0
    /\ elapsed = Zero
    /\ prevElapsed = Zero
    /\ queries = 0

\* timeline = Timeline(): t0 is whatever the counter shows at startup.
TimeInit ==
    /\ ticks \in 0 .. TicksPeriod - 1
    /\ t0 = ticks
    /\ uptime = 0
    /\ elapsed = Zero
    /\ prevElapsed = Zero
    /\ queries = 0

\* A millisecond passes.  The run is followed for two periods of the counter.
Tick ==
    /\ uptime < 2 * TicksPeriod
    /\ ticks' = (ticks + 1) % TicksPeriod
    /\ uptime' = uptime + 1
    /\ UNCHANGED <<t0, elapsed, prevElapsed, queries>>
    /\ UNCHANGED <<colorVars, topoVars, animVars, renderVars, mainVars>>

\* timeline.t
Query ==
    /\ elapsed' = Timeline_t(ticks, t0)
    /\ prevElapsed' = elapsed
    /\ queries' = IF queries < 2 THEN queries + 1 ELSE queries
    /\ UNCHANGED <<ticks, t0, uptime>>
    /\ UNCHANGED <<colorVars, topoVars, animVars, renderVars, mainVars>>

TimeNext == Tick \/ Query

-----------------------------------------------------------------------------
(* Claims about the Timeline *)

\* C6: the elapsed time is non-negative on every query and never decreases
\* between successive queries, also when the tick counter wraps around.
C6_ElapsedMonotonic ==
    /\ RLe(Zero, elapsed)
    /\ queries >= 2 => RLe(prevElapsed, elapsed)

-----------------------------------------------------------------------------
(* The main loop, src/main.py 383-438 *)

\* get_mode(), lines 383-402, from the three pin values
get_mode(pr, pb, py) ==
    LET r == pr = 0
        b == pb = 0
        y == py = 0
    IN  IF r /\ b /\ y THEN "rainbow"
        ELSE IF r /\ b THEN "red_blue_flash"
        ELSE IF r /\ y THEN "red_flash"
        ELSE IF b /\ y THEN "blue_flash"
        ELSE IF r THEN "red_spinner"
        ELSE IF b THEN "blue_spinner"
        ELSE IF y THEN "yellow_spinner"
        ELSE "off"

NoRenderer == [factory |-> "None", args |-> <<>>, built_for |-> "None"]

\* A slip: no branch for "off", so the renderer of the mode left stays.
make_renderer_without_off(m, old) ==
    LET made(f, a) == [factory |-> f, args |-> a, built_for |-> m]
    IN  IF m = "rainbow" THEN made("make_rainbow_renderer", <<>>)
        ELSE IF m = "red_blue_flash"
             THEN made("make_two_color_flash_renderer", <<RedF, BlueF>>)
        ELSE IF m = "red_flash" THEN made("make_color_flash_renderer", <<RedF>>)
        ELSE IF m = "blue_flash" THEN made("make_color_flash_renderer", <<BlueF>>)
        ELSE IF m = "yellow_flash" THEN made("make_color_flash_renderer", <<YellowF>>)
        ELSE IF m = "red_spinner" THEN made("make_color_spinner_renderer", <<RedF>>)
        ELSE IF m = "blue_spinner" THEN made("make_color_spinner_renderer", <<BlueF>>)
        ELSE IF m = "yellow_spinner"
             THEN made("make_color_spinner_renderer", <<YellowF>>)
        ELSE old

\* The if / elif chain of lines 413-430: the renderer after a change to mode
\* m, old being the renderer before (kept when no branch matches).
make_renderer(m, old) ==
    LET made(f, a) == [factory |-> f, args |-> a, built_for |-> m]
    IN  IF m = "rainbow" THEN made("make_rainbow_renderer", <<>>)
        ELSE IF m = "red_blue_flash"
             THEN made("make_two_color_flash_renderer", <<RedF, BlueF>>)
        ELSE IF m = "red_flash" THEN made("make_color_flash_renderer", <<RedF>>)
        ELSE IF m = "blue_flash" THEN made("make_color_flash_renderer", <<BlueF>>)
        ELSE IF m = "yellow_flash" THEN made("make_color_flash_renderer", <<YellowF>>)
        ELSE IF m = "red_spinner" THEN made("make_color_spinner_renderer", <<RedF>>)
        ELSE IF m = "blue_spinner" THEN made("make_color_spinner_renderer", <<BlueF>>)
        ELSE IF m = "yellow_spinner"
             THEN made("make_color_spinner_renderer", <<YellowF>>)
        ELSE IF m = "off" THEN NoRenderer
        ELSE old

NoIteration == [new_mode |-> "off", mode_before |-> "off", rebuilt |-> FALSE,
                output |-> NoRenderer, led |-> 0]

MainIdle ==
    /\ mode = "off"
    /\ renderer = NoRenderer
    /\ led_on = TRUE
    /\ iter = 0
    /\ loopLog = NoIteration

\* lines 405-406 and 308, with the sink as neopixel.NeoPixel leaves it
MainInit ==
    /\ MainIdle
    /\ np = [c \in Cells |-> Black]
    /\ np0 = np
    /\ blocks = <<NeoPixelBlock(0, NPix \div 2), NeoPixelBlock(NPix \div 2, NPix)>>
    /\ topoOp = NoOp
    /\ written = {}
    /\ npWrites = 0
    /\ topology = "block"
    /\ renderArgs = Zero
    /\ renderLog = NoRender

\* One pass of the while loop, lines 408-438.  What a renderer draws
\* depends on the time and the animation: any frame.
Iteration ==
    \E pr \in 0 .. 1, pb \in 0 .. 1, py \in 0 .. 1 :
        LET new_mode == get_mode(pr, pb, py)
            changed == new_mode # mode
            mode1 == IF changed THEN new_mode ELSE mode
            renderer1 == IF changed THEN make_renderer(mode1, renderer) ELSE renderer
        IN  /\ iter < MaxIter
            /\ led_on' = ~led_on
            /\ mode' = mode1
            /\ renderer' = renderer1
            /\ IF renderer1 # NoRenderer
               THEN np' \in [Cells -> PixVals]
               ELSE np' = [c \in Cells |-> Black]
            /\ np0' = np
            /\ npWrites' = npWrites + 1
            /\ iter' = iter + 1
            /\ loopLog' = [new_mode |-> new_mode, mode_before |-> mode,
                           rebuilt |-> changed, output |-> renderer1,
                           led |-> IF led_on THEN 1 ELSE 0]
            /\ UNCHANGED <<blocks, topoOp, written>>
            /\ UNCHANGED <<topology, renderArgs, renderLog>>
            /\ UNCHANGED <<colorVars, animVars, timeVars>>

MainNext == Iteration

-----------------------------------------------------------------------------
(* Claims about the main loop *)

\* C10: where an iteration outputs its frame, the mode is the value get_mode
\* returned in that iteration and the renderer is None exactly when the mode
\* is "off" (a renderer built for an earlier mode is never used after the
\* mode changed); the renderer is rebuilt only in iterations where the mode
\* changed; and the sink is flushed exactly once per iteration.
C10_LoopKeepsRendererInStep ==
    /\ iter > 0 =>
          /\ mode = loopLog.new_mode
          /\ loopLog.output = renderer
          /\ loopLog.rebuilt => loopLog.new_mode # loopLog.mode_before
          /\ ~loopLog.rebuilt => mode = loopLog.mode_before
    /\ (renderer = NoRenderer) <=> (mode = "off")
    /\ renderer # NoRenderer => renderer.built_for = mode
    /\ npWrites = iter

\* An iteration that switched from one lit mode to another and drew with
\* the new one's renderer.
C10_Witness ==
    /\ iter > 1
    /\ loopLog.rebuilt
    /\ loopLog.mode_before = "red_spinner"
    /\ mode = "blue_flash"
    /\ loopLog.output.factory = "make_color_flash_renderer"
    /\ np # [c \in Cells |-> Black]

-----------------------------------------------------------------------------
(* Specifications *)

InitColor == ColorInit /\ TopoIdle /\ AnimIdle /\ RenderIdle /\ TimeIdle /\ MainIdle
SpecColor == InitColor /\ [][ColorNext]_vars

InitTopology == TopoInit /\ ColorIdle /\ AnimIdle /\ RenderIdle /\ TimeIdle /\ MainIdle
SpecTopology == InitTopology /\ [][TopoNext]_vars

InitAnimation == AnimInit /\ ColorIdle /\ TopoIdle /\ RenderIdle /\ TimeIdle /\ MainIdle
SpecAnimation == InitAnimation /\ [][AnimNext]_vars

InitRender == RenderInit /\ ColorIdle /\ TimeIdle /\ MainIdle
SpecRender == InitRender /\ [][RenderNext]_vars

InitTimeline == TimeInit /\ ColorIdle /\ TopoIdle /\ AnimIdle /\ RenderIdle /\ MainIdle
SpecTimeline == InitTimeline /\ [][TimeNext]_vars

InitMain == MainInit /\ ColorIdle /\ AnimIdle /\ TimeIdle
SpecMain == InitMain /\ [][MainNext]_vars

=============================================================================
